---- MODULE Spec2Model ----
(***************************************************************************)
(* Model of the mcp_bot backend: the two Tool Adapters (ChromaDBTool,      *)
(* MongoDBTool), the Tool Registry and Dispatch Loop (MCPClient), the      *)
(* Routing Workflow (TehotnaUkrajinkaMCPGraph), the Tool-Calling Agent and *)
(* the API facade (main.py).                                               *)
(*                                                                         *)
(* Python values are modelled as follows: a dict is a function with string *)
(* keys, a list is a sequence, a str is a string, None where a str is      *)
(* expected is the string NoneStr, and an optional list or record is      *)
(* PyNone or PySome(v).  Text whose characters the code inspects (the user *)
(* query) is a sequence of one-character strings; text the code builds     *)
(* from pieces is the sequence of its pieces, "" being the empty sequence. *)
(***************************************************************************)
EXTENDS Integers, Sequences, FiniteSets, TLC

\* ------------------------------------------------------------------ bounds

\* Most tool invocations the completion endpoint returns in one answer.
MaxCalls == 2
\* Most requests served in one behaviour (caps the fresh-id counters).
MaxRequests == 1

\* ------------------------------------------------------- python values

NoneStr == "<None>"
PyNone == [none |-> TRUE, value |-> <<>>]
PySome(v) == [none |-> FALSE, value |-> v]
\* Python truthiness of an Optional[list]: None and [] are falsy.
Truthy(v) == ~v.none /\ v.value # <<>>

\* dict.get(key, default)
Get(d, k, default) == IF k \in DOMAIN d THEN d[k] ELSE default

\* "not s" for an Optional[str]
FalsyStr(s) == s = NoneStr \/ s = ""

EmptyDict == <<>>

Min(a, b) == IF a <= b THEN a ELSE b

\* The first n elements of s.
Take(s, n) == SubSeq(s, 1, Min(n, Len(s)))

\* json.dumps / json.loads: the text of a value is the value tagged as JSON
\* text; text that is not JSON does not load.
JsonDumps(v) == <<"json", v>>
JsonLoads(s) ==
    IF s[1] = "json" THEN [raised |-> FALSE, value |-> s[2]]
    ELSE [raised |-> TRUE, value |-> EmptyDict]
Malformed == <<"garbage">>

\* ------------------------------------------------- search-store adapter

\* Number of sample documents _add_sample_data writes.
NumSampleDocs == 15

\* The knowledge_base collection after ChromaDBTool.initialize on an empty
\* store: ids doc_0 .. doc_14.
SampleKnowledgeBase ==
    [i \in 1..NumSampleDocs |->
        [id |-> "doc_" \o ToString(i - 1),
         document |-> "sample_" \o ToString(i - 1),
         metadata |-> [type |-> "definition"]]]

\* uuid.uuid4() as text: the identifier of the n-th document added is fresh.
Uuid4(n) == "uuid_" \o ToString(n)

\* The outcome of an adapter call: raised (an exception left execute, exc is
\* its text) or a result mapping; store is the store's contents afterwards
\* and ctr the fresh-identifier counter afterwards.
Returned(result, store, ctr) ==
    [raised |-> FALSE, exc |-> "", result |-> result, store |-> store, ctr |-> ctr]
Raised(exc, store, ctr) ==
    [raised |-> TRUE, exc |-> exc, result |-> EmptyDict, store |-> store, ctr |-> ctr]

\* An error-shaped result: a mapping with an "error" key.
ErrorResult(msg) == [error |-> msg]
IsErrorShaped(result) == "error" \in DOMAIN result

\* fault = k > 0 means the k-th call this execution makes to the external
\* store raises; fault = 0 means the store answers every call.  A query is
\* text (a sequence): None and "" are both falsy and both the empty text.

ChromaExecuteQuery(args, kb, ctr, fault) ==
    LET query == Get(args, "query", <<>>)
        n_results == Get(args, "n_results", 3)
        hits == Take(kb, n_results)
    IN  IF query = <<>>
        THEN Returned(ErrorResult("Query is required for query operation"), kb, ctr)
        ELSE IF fault = 1
        THEN Returned(ErrorResult("Query failed: store"), kb, ctr)
        ELSE Returned([documents |-> [i \in 1..Len(hits) |-> hits[i].document],
                       metadatas |-> [i \in 1..Len(hits) |-> hits[i].metadata],
                       distances |-> [i \in 1..Len(hits) |-> i],
                       ids |-> [i \in 1..Len(hits) |-> hits[i].id]], kb, ctr)

\* Mutant: every added document gets the identifier of the first sample.
ChromaExecuteAdd_ReusesId(args, kb, ctr, fault) ==
    LET document == Get(args, "document", NoneStr)
        metadata == Get(args, "metadata", EmptyDict)
    IN  IF FalsyStr(document)
        THEN Returned(ErrorResult("Document is required for add operation"), kb, ctr)
        ELSE Returned([id |-> "doc_0", status |-> "added"],
                      Append(kb, [id |-> "doc_0", document |-> document,
                                  metadata |-> metadata]),
                      ctr)

ChromaExecuteAdd(args, kb, ctr, fault) ==
    LET document == Get(args, "document", NoneStr)
        metadata == Get(args, "metadata", EmptyDict)
        doc_id == Uuid4(ctr + 1)
    IN  IF FalsyStr(document)
        THEN Returned(ErrorResult("Document is required for add operation"), kb, ctr)
        ELSE IF fault = 1
        THEN Returned(ErrorResult("Failed to add document: store"), kb, ctr)
        ELSE Returned([id |-> doc_id, status |-> "added"],
                      Append(kb, [id |-> doc_id, document |-> document,
                                  metadata |-> metadata]),
                      ctr + 1)

ChromaExecuteDelete(args, kb, ctr, fault) ==
    LET doc_id == Get(args, "id", NoneStr)
    IN  IF FalsyStr(doc_id)
        THEN Returned(ErrorResult("ID is required for delete operation"), kb, ctr)
        ELSE IF fault = 1
        THEN Returned(ErrorResult("Failed to delete document: store"), kb, ctr)
        ELSE Returned([id |-> doc_id, status |-> "deleted"],
                      SelectSeq(kb, LAMBDA d : d.id # doc_id), ctr)

ChromaExecuteStats(kb, ctr, fault) ==
    IF fault \in {1, 2}
    THEN Returned(ErrorResult("Failed to get stats: store"), kb, ctr)
    ELSE Returned([count |-> Len(kb), collections |-> <<"knowledge_base">>], kb, ctr)

\* ChromaDBTool.execute
ChromaExecute(args, kb, ctr, fault) ==
    LET operation == Get(args, "operation", NoneStr)
    IN  IF FalsyStr(operation)
        THEN Returned(ErrorResult("Operation is required"), kb, ctr)
        ELSE IF operation = "query" THEN ChromaExecuteQuery(args, kb, ctr, fault)
        ELSE IF operation = "add" THEN ChromaExecuteAdd(args, kb, ctr, fault)
        ELSE IF operation = "delete" THEN ChromaExecuteDelete(args, kb, ctr, fault)
        ELSE IF operation = "stats" THEN ChromaExecuteStats(kb, ctr, fault)
        ELSE Returned(ErrorResult("Unknown operation"), kb, ctr)

\* ------------------------------------------------- record-store adapter

\* ava_database after MongoDBTool.initialize on an empty store.  ObjectIds
\* are numbered; the sample fields no code reads (email, preferences,
\* price, in_stock) are left out.
SampleDatabase ==
    [users |-> << [_id |-> 1, name |-> "John Doe", role |-> "admin"],
                  [_id |-> 2, name |-> "Jane Smith", role |-> "user"] >>,
     products |-> << [_id |-> 3, name |-> "Laptop", category |-> "electronics"],
                     [_id |-> 4, name |-> "Phone", category |-> "electronics"],
                     [_id |-> 5, name |-> "Desk", category |-> "furniture"] >>]

\* Number of ObjectIds the sample data uses.
NumSampleRecords == 5

\* A record matches a field-equality filter.
Matches(doc, filter) ==
    \A k \in DOMAIN filter : k \in DOMAIN doc /\ doc[k] = filter[k]

\* doc["_id"] = str(doc["_id"])
StrId(doc) == [doc EXCEPT !["_id"] = ToString(doc["_id"])]

\* Mutant: the patch replaces the record.
SetFields_Replace(doc, data) == data

\* {"$set": data} applied to one record.
SetFields(doc, data) ==
    [k \in DOMAIN doc \cup DOMAIN data |->
        IF k \in DOMAIN data THEN data[k] ELSE doc[k]]

\* MongoDBTool.execute.  list_collection_names is the first store call, the
\* operation itself the second.
MongoExecute(args, db, ctr, fault) ==
    LET operation == Get(args, "operation", NoneStr)
        collection_name == Get(args, "collection", NoneStr)
        filter_dict == Get(args, "filter", EmptyDict)
        data == Get(args, "data", EmptyDict)
        limit == Get(args, "limit", 0)
    IN  IF FalsyStr(operation) \/ FalsyStr(collection_name)
        THEN Returned(ErrorResult("Operation and collection are required"), db, ctr)
        ELSE IF fault = 1
        THEN Raised("store: list_collection_names", db, ctr)
        ELSE IF collection_name \notin DOMAIN db
        THEN Returned(ErrorResult("Collection does not exist"), db, ctr)
        ELSE
        LET collection == db[collection_name]
            matching == SelectSeq(collection, LAMBDA d : Matches(d, filter_dict))
        IN  IF operation = "find" THEN
                IF fault = 2 THEN Raised("store: find", db, ctr)
                ELSE LET cursor == IF limit > 0 THEN Take(matching, limit) ELSE matching
                     IN  Returned([results |-> [i \in 1..Len(cursor) |-> StrId(cursor[i])]],
                                  db, ctr)
            ELSE IF operation = "find_one" THEN
                IF fault = 2 THEN Raised("store: find_one", db, ctr)
                ELSE Returned([result |-> IF matching # <<>>
                                          THEN PySome(StrId(matching[1]))
                                          ELSE PyNone], db, ctr)
            ELSE IF operation = "count" THEN
                IF fault = 2 THEN Raised("store: count_documents", db, ctr)
                ELSE Returned([count |-> Len(matching)], db, ctr)
            ELSE IF operation = "insert" THEN
                IF DOMAIN data = {}
                THEN Returned(ErrorResult("Data is required for insert operation"), db, ctr)
                ELSE IF fault = 2 THEN Raised("store: insert_one", db, ctr)
                ELSE Returned([inserted_id |-> ToString(ctr + 1)],
                              [db EXCEPT ![collection_name] =
                                  Append(@, SetFields(data, [_id |-> ctr + 1]))],
                              ctr + 1)
            ELSE IF operation = "update" THEN
                IF DOMAIN data = {}
                THEN Returned(ErrorResult("Data is required for update operation"), db, ctr)
                ELSE IF fault = 2 THEN Raised("store: update_many", db, ctr)
                ELSE LET updated == [i \in 1..Len(collection) |->
                                        IF Matches(collection[i], filter_dict)
                                        THEN SetFields(collection[i], data)
                                        ELSE collection[i]]
                         modified == {i \in 1..Len(collection) :
                                        updated[i] # collection[i]}
                     IN  Returned([matched_count |-> Len(matching),
                                   modified_count |-> Cardinality(modified)],
                                  [db EXCEPT ![collection_name] = updated], ctr)
            ELSE IF operation = "delete" THEN
                IF fault = 2 THEN Raised("store: delete_many", db, ctr)
                ELSE Returned([deleted_count |-> Len(matching)],
                              [db EXCEPT ![collection_name] =
                                  SelectSeq(@, LAMBDA d : ~Matches(d, filter_dict))],
                              ctr)
            ELSE Returned(ErrorResult("Operation is not supported"), db, ctr)

\* ------------------------------------------------------------ query text

UpperToLower ==
    "A" :> "a" @@ "B" :> "b" @@ "C" :> "c" @@ "D" :> "d" @@ "E" :> "e" @@ "F" :> "f" @@
    "G" :> "g" @@ "H" :> "h" @@ "I" :> "i" @@ "J" :> "j" @@ "K" :> "k" @@ "L" :> "l" @@
    "M" :> "m" @@ "N" :> "n" @@ "O" :> "o" @@ "P" :> "p" @@ "Q" :> "q" @@ "R" :> "r" @@
    "S" :> "s" @@ "T" :> "t" @@ "U" :> "u" @@ "V" :> "v" @@ "W" :> "w" @@ "X" :> "x" @@
    "Y" :> "y" @@ "Z" :> "z"

\* str.lower()
Lower(text) ==
    [i \in 1..Len(text) |->
        IF text[i] \in DOMAIN UpperToLower THEN UpperToLower[text[i]] ELSE text[i]]

\* "word in text" for two strings: word occurs as a substring.
Contains(text, word) ==
    \E i \in 1..(Len(text) - Len(word) + 1) :
        SubSeq(text, i, i + Len(word) - 1) = word

QHello == <<"H", "e", "l", "l", "o">>
QWhatIsMcp == <<"W", "h", "a", "t", " ", "i", "s", " ", "M", "C", "P", "?">>
QHowManyProducts == <<"H", "o", "w", " ", "m", "a", "n", "y", " ", "p", "r", "o", "d", "u", "c", "t", "s", " ", "a", "r", "e", " ", "t", "h", "e", "r", "e", "?">>
QListUsers == <<"L", "i", "s", "t", " ", "U", "S", "E", "R", "S">>
QFindUser == <<"f", "i", "n", "d", " ", "u", "s", "e", "r">>
QCountOrders == <<"c", "o", "u", "n", "t", " ", "o", "r", "d", "e", "r", "s">>
QUserProducts == <<"u", "s", "e", "r", " ", "p", "r", "o", "d", "u", "c", "t", "s">>

\* The queries a caller sends.
Queries ==
    {QHello, QWhatIsMcp, QHowManyProducts, QListUsers, QFindUser, QCountOrders,
     QUserProducts}

\* The keyword lists of _analyze_query_node.
SearchKeywords ==
    {<<"s", "e", "a", "r", "c", "h">>,
     <<"f", "i", "n", "d">>,
     <<"w", "h", "a", "t", " ", "i", "s">>,
     <<"t", "e", "l", "l", " ", "m", "e", " ", "a", "b", "o", "u", "t">>,
     <<"e", "x", "p", "l", "a", "i", "n">>,
     <<"d", "e", "f", "i", "n", "i", "t", "i", "o", "n">>}
DatabaseKeywords ==
    {<<"u", "s", "e", "r">>,
     <<"p", "r", "o", "d", "u", "c", "t">>,
     <<"d", "a", "t", "a", "b", "a", "s", "e">>,
     <<"c", "o", "u", "n", "t">>,
     <<"l", "i", "s", "t">>,
     <<"s", "h", "o", "w">>}
KwUser == <<"u", "s", "e", "r">>
\* Mutant: the record-query node looks for another word.
KwProduct_Item == <<"i", "t", "e", "m">>
KwProduct == <<"p", "r", "o", "d", "u", "c", "t">>

\* ------------------------------------------------------------- registry

\* MCPClient.tools after initialize: the names the Registry holds.
Tools == {"chromadb", "mongodb"}

\* get_available_tools: one schema per registered adapter, in insertion order.
AvailableTools == << "chromadb", "mongodb" >>

\* self.tools[name].execute(args) against the shared stores.  The outcome
\* carries both stores and both fresh-identifier counters.
AdapterExecute(name, args, stores, fault) ==
    IF name = "chromadb"
    THEN LET r == ChromaExecute(args, stores.kb, stores.uuid, fault)
         IN  [raised |-> r.raised, exc |-> r.exc, result |-> r.result,
              stores |-> [stores EXCEPT !.kb = r.store, !.uuid = r.ctr]]
    ELSE LET r == MongoExecute(args, stores.db, stores.oid, fault)
         IN  [raised |-> r.raised, exc |-> r.exc, result |-> r.result,
              stores |-> [stores EXCEPT !.db = r.store, !.oid = r.ctr]]

\* "tool_name in self.tools"
IsRegistered(name) == name \in Tools

\* MCPClient.call_tool
CallTool(name, args, stores, fault) ==
    IF ~IsRegistered(name)
    THEN [raised |-> TRUE, exc |-> "Tool not found", result |-> EmptyDict,
          stores |-> stores]
    ELSE AdapterExecute(name, args, stores, fault)

\* Which call to the external store raises during one execution (0: none).
\* The record-store adapter makes up to two calls; for the search-store
\* adapter a failing first call stands for either call failing.
FaultsFor(name) == IF name = "mongodb" THEN 0..2 ELSE 0..1

\* ------------------------------------------------- completion endpoint

SystemPrompt == "You are Tehotna Ukrajinka, a helpful assistant."

\* Texts the completion endpoint answers with ("" included).
Texts == { <<>>, <<"answer">> }

\* The (name, arguments) pairs the model asks for: arguments is JSON text.
Wanted ==
    { [name |-> "chromadb",
       arguments |-> JsonDumps([operation |-> "add", document |-> "new doc"])],
      [name |-> "mongodb",
       arguments |-> JsonDumps([operation |-> "count", collection |-> "users"])],
      [name |-> "weather", arguments |-> JsonDumps([city |-> "Kyiv"])],
      [name |-> "chromadb", arguments |-> Malformed] }

\* The tool_calls of one answer: each invocation gets its own id.
ToolCallLists ==
    UNION { { [i \in 1..n |-> [id |-> "call_" \o ToString(i), function |-> w[i]]] :
              w \in [1..n -> Wanted] } : n \in 1..MaxCalls }

\* response.choices[0].message of the first call: text without tool calls,
\* or tool calls (the endpoint then sends no text, which the code reads as "").
FirstAnswers ==
    [content : Texts, tool_calls : {PyNone}]
    \cup [content : {<<>>}, tool_calls : {PySome(l) : l \in ToolCallLists}]

\* response.choices[0].message of the second call.  Should the endpoint
\* answer with a tool call although none was offered, it is in the message.
SecondAnswers ==
    [content : Texts,
     tool_calls : {PyNone,
                   PySome(<< [id |-> "call_late",
                              function |-> [name |-> "chromadb",
                                            arguments |-> JsonDumps(
                                                [operation |-> "add",
                                                 document |-> "late doc"])]] >>)}]

\* An adapter execution, as the history records it: who called it, with
\* what, for which invocation id (NoneStr outside the Dispatch Loop), and
\* which store call failed.
ExecuteEvent(by, tool, args, call_id, fault) ==
    [ev |-> "execute", by |-> by, tool |-> tool, args |-> args,
     call_id |-> call_id, fault |-> fault]

\* An exception that left the component `by`, as the history records it.
RaiseEvent(by, exc) == [ev |-> "raise", by |-> by, exc |-> exc]

\* A workflow node starts to run, as the history records it.
NodeEvent(name) == [ev |-> "node", name |-> name]

\* What the endpoint answered, as the history records it.
AnswerEvent(message) ==
    [ev |-> "answer", content |-> message.content, tool_calls |-> message.tool_calls]

\* The prompt process_query receives: the raw query, or the generation
\* node's query wrapped together with the context.
RawPrompt(query) == [wrapped |-> FALSE, query |-> query, context |-> <<>>]
EnhancedPrompt(query, context) == [wrapped |-> TRUE, query |-> query, context |-> context]

\* The two turns every request of the Dispatch Loop starts with.
InitialMessages(prompt) ==
    << [role |-> "system", content |-> SystemPrompt],
       [role |-> "user", content |-> prompt] >>

\* Mutant: the branch tests the message instead of its tool calls.
RequestsTools_AnyMessage(message) == TRUE

\* The condition of the Dispatch Loop's branch: the model requested tools.
RequestsTools(message) == Truthy(message.tool_calls)

\* Mutant: the second request carries only the assistant turn and the tool
\* turns.
FollowUpMessages_WithoutInitial(prompt, message, tool_calls) ==
    << [role |-> "assistant", content |-> message.content,
        tool_calls |-> message.tool_calls.value] >>
    \o [i \in 1..Len(tool_calls) |->
          [role |-> "tool",
           tool_call_id |-> message.tool_calls.value[i].id,
           name |-> tool_calls[i].name,
           content |-> JsonDumps(tool_calls[i].result)]]

\* follow_up_messages: the initial turns, the assistant's tool-call turn, and
\* one tool turn per recorded tool call, the i-th carrying the id of the i-th
\* invocation of the answer.
FollowUpMessages(prompt, message, tool_calls) ==
    InitialMessages(prompt)
    \o << [role |-> "assistant", content |-> message.content,
           tool_calls |-> message.tool_calls.value] >>
    \o [i \in 1..Len(tool_calls) |->
          [role |-> "tool",
           tool_call_id |-> message.tool_calls.value[i].id,
           name |-> tool_calls[i].name,
           content |-> JsonDumps(tool_calls[i].result)]]

\* The mapping process_query returns.
LoopResult(final_content, tool_calls) ==
    [response |-> final_content,
     tool_calls |-> IF tool_calls # <<>> THEN PySome(tool_calls) ELSE PyNone]

\* The first completion request.
FirstRequest(prompt) ==
    [ev |-> "complete", messages |-> InitialMessages(prompt),
     tools |-> PySome(AvailableTools), tool_choice |-> "auto"]

\* Mutant: the second request offers the tools again.
SecondRequest_WithTools(messages) ==
    [ev |-> "complete", messages |-> messages,
     tools |-> PySome(AvailableTools), tool_choice |-> "auto"]

\* The second completion request: no tools, no tool_choice.
SecondRequest(messages) ==
    [ev |-> "complete", messages |-> messages,
     tools |-> PyNone, tool_choice |-> NoneStr]

\* ------------------------------------------------------------------ state

VARIABLES
    stores,      \* the two external stores: kb, db and the id counters
    pc,          \* position of the request being served ("idle": none)
    request,     \* the request being served, or the last one served
    nreq,        \* requests received so far
    dl,          \* locals of the running MCPClient.process_query
    ret,         \* outcome of the last MCPClient.process_query
    state,       \* MCPGraphState of the running workflow
    steps,       \* intermediate_steps of the running agent
    log,         \* history: completion requests and answers, adapter
                 \* executions, workflow nodes run and exceptions of the
                 \* request being served, in order
    start,       \* history: the stores when the request arrived
    http,        \* the response to the last request
    boot,        \* locals of the running adapter initialize, and the adapters
                 \* lifespan has still to initialize
    life,        \* the process lifecycle: the store connections that are open,
                 \* the close calls shutdown has made, and (history) the
                 \* collections seeded so far by the running startup
    parked       \* the locals of the request task that is suspended while
                 \* another one runs

vars ==
    << stores, pc, request, nreq, dl, ret, state, steps, log, start, http, boot,
       life, parked >>

NoRequest ==
    [endpoint |-> "none", query |-> <<>>, processing_method |-> "",
     name |-> "", args |-> EmptyDict]
NoLoop ==
    [caller |-> "", prompt |-> RawPrompt(<<>>),
     message |-> [content |-> <<>>, tool_calls |-> PyNone],
     tool_calls |-> <<>>, i |-> 0]
NoRet == [raised |-> FALSE, exc |-> "", value |-> LoopResult(<<>>, <<>>)]
NoState ==
    [query |-> <<>>, response |-> <<>>, mcp_tool_calls |-> <<>>,
     error |-> <<>>, context |-> <<>>, route |-> NoneStr]
NoHttp == [status |-> 0, body |-> EmptyDict]
NoLife == [open |-> {}, closed |-> 0, seeds |-> <<>>]

\* The locals of a request task, and the task slot when no task is suspended.
TaskOf(p, r, d, rt, st, sp, l, h) ==
    [pc |-> p, request |-> r, dl |-> d, ret |-> rt, state |-> st, steps |-> sp,
     log |-> l, http |-> h]
NoTask == TaskOf("idle", NoRequest, NoLoop, NoRet, NoState, <<>>, <<>>, NoHttp)

\* ---------------------------------------------------------------- startup

\* max_retries of both adapters' initialize, and the seconds it sleeps
\* between two attempts.
MaxRetries == 5
RetryDelay == 5

\* The adapters lifespan initializes, in order: those of mcp_client, of the
\* agent and of the workflow's own MCPClient.
BootOrder == << "chromadb", "mongodb", "chromadb", "mongodb", "chromadb", "mongodb" >>

\* The connections a complete startup opens, one per adapter initialized.
AllConnections == 1..Len(BootOrder)

\* The locals of one initialize when it starts: the loop index i, the
\* outcomes of the connection attempts made (history), the delays slept
\* (history) and self.client.
NewBoot(queue) ==
    [queue |-> queue, i |-> 0, outcomes |-> <<>>, sleeps |-> <<>>, client |-> "none"]
NoBoot == NewBoot(<<>>)

\* The external stores before the first start (empty) and the stores a
\* previous run has seeded.
EmptyStores ==
    [kb |-> <<>>, uuid |-> 0, db |-> [c \in {} |-> <<>>], oid |-> 0]
SeededStores ==
    [kb |-> SampleKnowledgeBase, uuid |-> 0,
     db |-> SampleDatabase, oid |-> NumSampleRecords]

\* The state when lifespan starts.
Init ==
    /\ stores \in {EmptyStores, SeededStores}
    /\ pc = "connect"
    /\ boot = NewBoot(BootOrder)
    /\ request = NoRequest
    /\ nreq = 0
    /\ dl = NoLoop
    /\ ret = NoRet
    /\ state = NoState
    /\ steps = <<>>
    /\ log = <<>>
    /\ start = stores
    /\ http = NoHttp
    /\ life = NoLife
    /\ parked = NoTask

\* The place in BootOrder of the adapter being initialized: it names the
\* connection this adapter opens.
BootIndex == Len(BootOrder) - Len(boot.queue) + 1

\* Mutant: the loop sleeps and retries after every failed attempt.
ShouldRetry_Always(i) == TRUE

\* "if i < max_retries - 1": a failed attempt is followed by a retry.
ShouldRetry(i) == i < MaxRetries - 1

\* One pass through the try block of initialize's loop: the connection
\* attempt succeeds (break) or raises; a failure is followed by the sleep or,
\* on the last attempt, re-raised.
Connect ==
    /\ pc = "connect"
    /\ \E ok \in BOOLEAN :
        /\ boot' = [boot EXCEPT !.outcomes = Append(@, ok),
                                !.client = IF ok THEN "connected" ELSE @]
        /\ life' = IF ok THEN [life EXCEPT !.open = @ \cup {BootIndex}] ELSE life
        /\ pc' = IF ok THEN "setup"
                 ELSE IF ShouldRetry(boot.i) THEN "sleep"
                 ELSE "startup_failed"
    /\ UNCHANGED << stores, request, nreq, dl, ret, state, steps, log, start, http,
                    parked >>

\* asyncio.sleep(5) returns and the for loop goes on: the next attempt, or
\* the end of the loop when range(max_retries) is used up.
RetryAfterSleep ==
    /\ pc = "sleep"
    /\ boot' = [boot EXCEPT !.sleeps = Append(@, RetryDelay), !.i = @ + 1]
    /\ pc' = IF boot.i + 1 < MaxRetries THEN "connect" ELSE "setup"
    /\ UNCHANGED << stores, request, nreq, dl, ret, state, steps, log, start, http,
                    life, parked >>

\* Mutant: initialize writes the sample data without looking at the store.
SetUpStores_AlwaysSeeds(name, st) ==
    IF name = "chromadb"
    THEN [st EXCEPT !.kb = @ \o SampleKnowledgeBase]
    ELSE [st EXCEPT
            !.db = [c \in DOMAIN st.db \cup {"users", "products"} |->
                       IF c \in DOMAIN st.db
                       THEN st.db[c] \o SampleDatabase[c]
                       ELSE SampleDatabase[c]],
            !.oid = NumSampleRecords]

\* The store after the rest of initialize: an empty knowledge_base gets the
\* sample documents, a missing users or products collection its sample
\* records.
SetUpStores(name, st) ==
    IF name = "chromadb"
    THEN [st EXCEPT !.kb = IF Len(@) = 0 THEN SampleKnowledgeBase ELSE @]
    ELSE LET missing == {"users", "products"} \ DOMAIN st.db
         IN  [st EXCEPT
                !.db = [c \in DOMAIN st.db \cup missing |->
                           IF c \in missing THEN SampleDatabase[c] ELSE st.db[c]],
                !.oid = IF missing = {} THEN @ ELSE NumSampleRecords]

\* The collections the rest of initialize writes sample data to, in order.
SeedsOf(name, st) ==
    IF name = "chromadb"
    THEN IF Len(st.kb) = 0 THEN << "knowledge_base" >> ELSE <<>>
    ELSE (IF "users" \notin DOMAIN st.db THEN << "users" >> ELSE <<>>)
         \o (IF "products" \notin DOMAIN st.db THEN << "products" >> ELSE <<>>)

\* The rest of initialize after the loop; it uses self.client, so without a
\* connection it raises.  The next adapter's initialize then starts, and
\* after the last one the application serves requests.
SetUp ==
    /\ pc = "setup"
    /\ IF boot.client # "connected"
       THEN /\ pc' = "startup_failed"
            /\ UNCHANGED << stores, boot, start, life >>
       ELSE /\ stores' = SetUpStores(Head(boot.queue), stores)
            /\ life' = [life EXCEPT
                            !.seeds = IF Tail(boot.queue) = <<>> THEN <<>>
                                      ELSE @ \o SeedsOf(Head(boot.queue), stores)]
            /\ start' = stores'
            /\ boot' = NewBoot(Tail(boot.queue))
            /\ pc' = IF Tail(boot.queue) = <<>> THEN "idle" ELSE "connect"
    /\ UNCHANGED << request, nreq, dl, ret, state, steps, log, http, parked >>

\* --------------------------------------------------------------- shutdown

\* The mongodb close call that raises during shutdown (0: none): the adapters
\* are closed in the order of BootOrder, and only MongoDBTool.close calls
\* the store's client.
CloseFailures == {0} \cup {k \in 1..Len(BootOrder) : BootOrder[k] = "mongodb"}

\* lifespan's three close steps.  ChromaDBTool.close is "pass";
\* MongoDBTool.close calls self.client.close(), which releases the
\* connection or raises, and an exception leaves lifespan.
CloseAll(lf, failAt) ==
    LET calls == IF failAt = 0 THEN Len(BootOrder) ELSE failAt
    IN  [lf EXCEPT
            !.closed = calls,
            !.open = @ \ {k \in 1..calls : BootOrder[k] = "mongodb" /\ k # failAt}]

\* lifespan resumes after its yield and runs its close steps: the
\* application has stopped serving and the handlers' locals are gone.
Shutdown ==
    /\ pc = "idle"
    /\ boot = NoBoot
    /\ \E failAt \in CloseFailures : life' = CloseAll(life, failAt)
    /\ pc' = "stopped"
    /\ request' = NoRequest
    /\ dl' = NoLoop
    /\ ret' = NoRet
    /\ state' = NoState
    /\ steps' = <<>>
    /\ log' = <<>>
    /\ http' = NoHttp
    /\ start' = stores
    /\ UNCHANGED << stores, nreq, boot, parked >>

\* ---------------------------------------------------------- API facade

Methods == {"mcp", "langgraph", "langchain", "other"}

\* The queries sent to the methods that never inspect the query text.
PlainQueries == {QHello, QWhatIsMcp}

\* HTTPException(status_code=500, detail=str(e))
Http500(exc) == [status |-> 500, body |-> [detail |-> exc]]
Http200(body) == [status |-> 200, body |-> body]

\* result.get("tool_calls", [])
GetToolCalls(result) ==
    IF "tool_calls" \in DOMAIN result THEN result.tool_calls ELSE PySome(<<>>)

\* The envelope of the "mcp" branch of POST /query.
McpEnvelope(result) ==
    [response |-> result.response,
     tool_calls |-> GetToolCalls(result),
     method |-> "MCP Direct"]

\* Mutant: the handler answers with an apology envelope instead of an error.
McpFailure_Apology(exc) ==
    Http200([response |-> <<"Sorry", exc>>, tool_calls |-> PySome(<<>>),
             method |-> "MCP Direct"])

\* The facade's handler for an exception of the direct method.
McpFailure(exc) == Http500(exc)

\* Mutant: only "langchain" selects the agent, any other value the direct
\* method.
MethodOf_AgentByName(processing_method) ==
    IF processing_method = "langgraph" THEN "workflow"
    ELSE IF processing_method = "langchain" THEN "agent"
    ELSE "loop"

\* The if / elif / else of process_query on request.processing_method.
MethodOf(processing_method) ==
    IF processing_method = "mcp" THEN "loop"
    ELSE IF processing_method = "langgraph" THEN "workflow"
    ELSE "agent"

\* The locals of the task of POST /query when the handler calls the method
\* chosen for request.processing_method.
Arrived(m, q) ==
    LET r == [endpoint |-> "query", query |-> q, processing_method |-> m,
              name |-> "", args |-> EmptyDict]
    IN  IF MethodOf(m) = "loop"
        THEN TaskOf("dl_first", r,
                    [NoLoop EXCEPT !.caller = "facade", !.prompt = RawPrompt(q)],
                    NoRet, NoState, <<>>, <<>>, NoHttp)
        ELSE IF MethodOf(m) = "workflow"
        THEN TaskOf("analyze_query", r, NoLoop, NoRet,
                    [NoState EXCEPT !.query = q], <<>>, <<>>, NoHttp)
        ELSE TaskOf("agent", r, NoLoop, NoRet, NoState, <<>>, <<>>, NoHttp)

\* The running task's locals become those of task t.
Run(t) ==
    /\ pc' = t.pc
    /\ request' = t.request
    /\ dl' = t.dl
    /\ ret' = t.ret
    /\ state' = t.state
    /\ steps' = t.steps
    /\ log' = t.log
    /\ http' = t.http

\* POST /query arrives: the handler calls the chosen method.
ReceiveQuery ==
    /\ pc = "idle"
    /\ nreq < MaxRequests
    /\ \E m \in Methods :
       \E q \in (IF m = "langgraph" THEN Queries ELSE PlainQueries) :
        Run(Arrived(m, q))
    /\ nreq' = nreq + 1
    /\ start' = stores
    /\ UNCHANGED << stores, boot, life, parked >>

\* Where MCPClient.process_query returns to.
Continuation(caller) == IF caller = "facade" THEN "mcp_return" ELSE "generate_end"

\* ------------------------------------------------------- Dispatch Loop

\* MCPClient.process_query up to the first answer: the completion call
\* raises, or answers; an answer without tool calls is returned at once.
FirstCompletion ==
    /\ pc = "dl_first"
    /\ \/ /\ ret' = [raised |-> TRUE, exc |-> "completion failed", value |-> NoRet.value]
          /\ pc' = Continuation(dl.caller)
          /\ dl' = dl
          /\ log' = Append(log, FirstRequest(dl.prompt))
       \/ \E a \in FirstAnswers :
          /\ log' = log \o << FirstRequest(dl.prompt), AnswerEvent(a) >>
          /\ dl' = [dl EXCEPT !.message = a, !.tool_calls = <<>>, !.i = 1]
          /\ IF RequestsTools(a)
             THEN /\ pc' = "dl_dispatch"
                  /\ ret' = ret
             ELSE /\ pc' = Continuation(dl.caller)
                  /\ ret' = [raised |-> FALSE, exc |-> "",
                             value |-> LoopResult(a.content, <<>>)]
    /\ UNCHANGED << stores, request, nreq, state, steps, start, http, boot, life, parked >>

\* Mutant: the loop walks the invocations from the last to the first.
InvocationAt_Reversed(invocations, i) == invocations[Len(invocations) + 1 - i]

\* The invocation the i-th iteration of the for loop handles.
InvocationAt(invocations, i) == invocations[i]

\* One iteration of "for tool_call in response_message.tool_calls".
DispatchOne ==
    /\ pc = "dl_dispatch"
    /\ dl.i <= Len(dl.message.tool_calls.value)
    /\ LET tool_call == InvocationAt(dl.message.tool_calls.value, dl.i)
           tool_name == tool_call.function.name
           loaded == JsonLoads(tool_call.function.arguments)
           tool_args == loaded.value
       IN  IF loaded.raised
           THEN /\ ret' = [raised |-> TRUE, exc |-> "JSONDecodeError", value |-> NoRet.value]
                /\ pc' = Continuation(dl.caller)
                /\ UNCHANGED << dl, stores, log >>
           ELSE IF IsRegistered(tool_name)
           THEN \E fault \in FaultsFor(tool_name) :
                LET out == AdapterExecute(tool_name, tool_args, stores, fault)
                IN  /\ stores' = out.stores
                    /\ log' = Append(log, ExecuteEvent("loop", tool_name, tool_args,
                                                       tool_call.id, fault))
                    /\ IF out.raised
                       THEN /\ ret' = [raised |-> TRUE, exc |-> out.exc,
                                       value |-> NoRet.value]
                            /\ pc' = Continuation(dl.caller)
                            /\ dl' = dl
                       ELSE /\ dl' = [dl EXCEPT !.i = @ + 1,
                                         !.tool_calls = Append(@,
                                             [name |-> tool_name, args |-> tool_args,
                                              result |-> out.result])]
                            /\ UNCHANGED << ret, pc >>
           ELSE /\ dl' = [dl EXCEPT !.i = @ + 1]
                /\ UNCHANGED << ret, pc, stores, log >>
    /\ UNCHANGED << request, nreq, state, steps, start, http, boot, life, parked >>

\* After the loop: build follow_up_messages, call the completion endpoint
\* without tools, return its text and the recorded tool calls.
SecondCompletion ==
    /\ pc = "dl_dispatch"
    /\ dl.i > Len(dl.message.tool_calls.value)
    /\ LET second == SecondRequest(
                         FollowUpMessages(dl.prompt, dl.message, dl.tool_calls))
       IN  \/ /\ ret' = [raised |-> TRUE, exc |-> "completion failed",
                         value |-> NoRet.value]
              /\ log' = Append(log, second)
           \/ \E a \in SecondAnswers :
              /\ ret' = [raised |-> FALSE, exc |-> "",
                         value |-> LoopResult(a.content, dl.tool_calls)]
              /\ log' = log \o << second, AnswerEvent(a) >>
    /\ pc' = Continuation(dl.caller)
    /\ UNCHANGED << stores, request, nreq, dl, state, steps, start, http, boot, life, parked >>

\* POST /query, "mcp" branch, after mcp_client.process_query.
McpReturn ==
    /\ pc = "mcp_return"
    /\ http' = IF ret.raised THEN McpFailure(ret.exc)
               ELSE Http200(McpEnvelope(ret.value))
    /\ pc' = "idle"
    /\ UNCHANGED << stores, request, nreq, dl, ret, state, steps, log, start, boot, life, parked >>

\* POST /tool: call_specific_tool, one call of MCPClient.call_tool.
ToolNames == Tools \cup {"weather"}

\* The argument mappings a caller of POST /tool sends.
ToolArgs ==
    << [operation |-> "stats"],
       [operation |-> "add", document |-> "new doc"],
       [operation |-> "delete", id |-> "doc_0"],
       [operation |-> "query", query |-> <<"m", "c", "p">>],
       [operation |-> "drop"],
       EmptyDict,
       [operation |-> "count", collection |-> "users"],
       [operation |-> "find", collection |-> "users", limit |-> 1],
       [operation |-> "find_one", collection |-> "users",
        filter |-> [role |-> "admin"]],
       [operation |-> "insert", collection |-> "users",
        data |-> [name |-> "Eve", role |-> "user"]],
       [operation |-> "update", collection |-> "users",
        filter |-> [role |-> "admin"], data |-> [role |-> "user"]],
       [operation |-> "delete", collection |-> "products",
        filter |-> [category |-> "furniture"]],
       [operation |-> "drop", collection |-> "users"],
       [collection |-> "users"],
       [operation |-> "find", collection |-> "orders"],
       [operation |-> "update", collection |-> "users",
        filter |-> [role |-> "guest"], data |-> [role |-> "user"]],
       [operation |-> "update", collection |-> "users",
        filter |-> [role |-> "admin"], data |-> [role |-> "admin"]],
       [operation |-> "update", collection |-> "products",
        filter |-> [category |-> "electronics"], data |-> [in_stock |-> "yes"]],
       [operation |-> "update", collection |-> "users",
        filter |-> [role |-> "admin"], data |-> EmptyDict] >>

ReceiveTool ==
    /\ pc = "idle"
    /\ nreq < MaxRequests
    /\ \E name \in ToolNames, k \in 1..Len(ToolArgs) :
       \E fault \in FaultsFor(name) :
        LET args == ToolArgs[k]
            out == CallTool(name, args, stores, fault)
        IN  /\ request' = [endpoint |-> "tool", query |-> <<>>,
                           processing_method |-> "", name |-> name, args |-> args]
            /\ stores' = out.stores
            /\ ret' = [raised |-> out.raised, exc |-> out.exc, value |-> out.result]
            /\ log' = IF name \in Tools
                      THEN << ExecuteEvent("call_tool", name, args, NoneStr, fault) >>
                      ELSE <<>>
            /\ http' = IF out.raised THEN Http500(out.exc)
                       ELSE Http200([result |-> out.result])
    /\ nreq' = nreq + 1
    /\ start' = stores
    /\ dl' = NoLoop
    /\ state' = NoState
    /\ steps' = <<>>
    /\ pc' = "idle"
    /\ UNCHANGED << boot, life, parked >>

\* ---------------------------------------------------- Routing Workflow

\* Mutant: a query without keywords falls through to the knowledge search.
AnalyzeRoute_SearchByDefault(text) ==
    LET query == Lower(text)
    IN  IF \E word \in DatabaseKeywords : Contains(query, word)
           /\ ~\E other \in SearchKeywords : Contains(query, other)
        THEN "database"
        ELSE "search"

\* Mutant: the record-intent keywords are checked first.
AnalyzeRoute_DatabaseFirst(text) ==
    LET query == Lower(text)
    IN  IF \E word \in DatabaseKeywords : Contains(query, word) THEN "database"
        ELSE IF \E other \in SearchKeywords : Contains(query, other) THEN "search"
        ELSE "direct"

\* The route _analyze_query_node stores.
AnalyzeRoute(text) ==
    LET query == Lower(text)
    IN  IF \E word \in SearchKeywords : Contains(query, word) THEN "search"
        ELSE IF \E word \in DatabaseKeywords : Contains(query, word) THEN "database"
        ELSE "direct"

\* _route_after_analysis
RouteAfterAnalysis(s) == IF s.error # <<>> THEN "error" ELSE s.route

\* Mutant: the "database" edge leads to the knowledge search.
NodeOfRoute_DatabaseToSearch(route) ==
    IF route \in {"search", "database"} THEN "search_knowledge"
    ELSE IF route = "direct" THEN "generate_response"
    ELSE "handle_error"

\* The conditional edges out of analyze_query.
NodeOfRoute(route) ==
    IF route = "search" THEN "search_knowledge"
    ELSE IF route = "database" THEN "query_database"
    ELSE IF route = "direct" THEN "generate_response"
    ELSE "handle_error"

AnalyzeQuery ==
    /\ pc = "analyze_query"
    /\ state' = [state EXCEPT !.route = AnalyzeRoute(state.query)]
    /\ pc' = NodeOfRoute(RouteAfterAnalysis(state'))
    /\ log' = Append(log, NodeEvent("analyze_query"))
    /\ UNCHANGED << stores, request, nreq, dl, ret, steps, start, http, boot, life, parked >>

\* Mutant: without documents the context stays empty.
SearchContext_EmptyWithoutDocuments(documents) ==
    IF documents # <<>>
    THEN <<"Knowledge Base Results:", documents>>
    ELSE <<>>

\* The context _search_knowledge_node sets from result.get("documents", []).
SearchContext(documents) ==
    IF documents # <<>>
    THEN <<"Knowledge Base Results:", documents>>
    ELSE <<"No relevant information found in knowledge base.">>

\* _search_knowledge_node
SearchKnowledge ==
    /\ pc = "search_knowledge"
    /\ \E fault \in FaultsFor("chromadb") :
        LET args == [operation |-> "query", query |-> state.query, n_results |-> 3]
            out == CallTool("chromadb", args, stores, fault)
            documents == Get(out.result, "documents", <<>>)
        IN  /\ stores' = out.stores
            /\ log' = log \o << NodeEvent("search_knowledge"),
                                ExecuteEvent("search_knowledge", "chromadb", args,
                                             NoneStr, fault) >>
            /\ state' =
                IF out.raised
                THEN [state EXCEPT !.error = <<"Knowledge search error", out.exc>>]
                ELSE [state EXCEPT
                        !.mcp_tool_calls = Append(@,
                            [tool |-> "chromadb", operation |-> "search",
                             args |-> [query |-> state.query, n_results |-> 3],
                             result |-> out.result]),
                        !.context = SearchContext(documents)]
    /\ pc' = "generate_response"
    /\ UNCHANGED << request, nreq, dl, ret, steps, start, http, boot, life, parked >>

\* The record appended by _query_database_node, and the context it sets.
DatabaseLogged(s, context_title, result) ==
    [s EXCEPT
        !.mcp_tool_calls = Append(@,
            [tool |-> "mongodb", operation |-> "query",
             args |-> [query_type |-> "auto-detected"], result |-> result]),
        !.context = <<context_title, JsonDumps(result)>>]

\* Mutant: the record-query node looks for "product" first.
DatabaseBranch_ProductFirst(query) ==
    IF Contains(query, KwProduct) THEN "products"
    ELSE IF Contains(query, KwUser) THEN "users"
    ELSE "counts"

\* The if / elif / else of _query_database_node on the lowercased query:
\* the collection to list, or "counts".
DatabaseBranch(query) ==
    IF Contains(query, KwUser) THEN "users"
    ELSE IF Contains(query, KwProduct) THEN "products"
    ELSE "counts"

\* _query_database_node
QueryDatabase ==
    /\ pc = "query_database"
    /\ LET query == Lower(state.query)
           branch == DatabaseBranch(query)
       IN  IF branch # "counts"
           THEN \E fault \in FaultsFor("mongodb") :
                LET coll == branch
                    title == IF branch = "users" THEN "Users in Database:"
                             ELSE "Products in Database:"
                    args == [operation |-> "find", collection |-> coll, limit |-> 5]
                    out == CallTool("mongodb", args, stores, fault)
                IN  /\ stores' = out.stores
                    /\ log' = log \o << NodeEvent("query_database"),
                                        ExecuteEvent("query_database", "mongodb", args,
                                                     NoneStr, fault) >>
                    /\ state' = IF out.raised
                                THEN [state EXCEPT !.error = <<"Database query error", out.exc>>]
                                ELSE DatabaseLogged(state, title, out.result)
           ELSE \E f1 \in FaultsFor("mongodb"), f2 \in FaultsFor("mongodb") :
                LET a1 == [operation |-> "count", collection |-> "users"]
                    a2 == [operation |-> "count", collection |-> "products"]
                    users_result == CallTool("mongodb", a1, stores, f1)
                    products_result == CallTool("mongodb", a2, users_result.stores, f2)
                    result == [users_count |-> Get(users_result.result, "count", 0),
                               products_count |-> Get(products_result.result, "count", 0)]
                IN  IF users_result.raised
                    THEN /\ stores' = users_result.stores
                         /\ log' = log \o << NodeEvent("query_database"),
                                             ExecuteEvent("query_database", "mongodb", a1,
                                                          NoneStr, f1) >>
                         /\ state' = [state EXCEPT
                                !.error = <<"Database query error", users_result.exc>>]
                    ELSE /\ stores' = products_result.stores
                         /\ log' = log \o << NodeEvent("query_database"),
                                             ExecuteEvent("query_database", "mongodb", a1,
                                                          NoneStr, f1),
                                             ExecuteEvent("query_database", "mongodb", a2,
                                                          NoneStr, f2) >>
                         /\ state' = IF products_result.raised
                                     THEN [state EXCEPT
                                        !.error = <<"Database query error", products_result.exc>>]
                                     ELSE DatabaseLogged(state, "Database Statistics:", result)
    /\ pc' = "generate_response"
    /\ UNCHANGED << request, nreq, dl, ret, steps, start, http, boot, life, parked >>

\* The prompt _generate_response_node passes to the Dispatch Loop.
GeneratePrompt(s) ==
    IF s.context # <<>> THEN EnhancedPrompt(s.query, s.context) ELSE RawPrompt(s.query)

\* _generate_response_node up to its call of mcp_client.process_query.
GenerateResponse ==
    /\ pc = "generate_response"
    /\ dl' = [NoLoop EXCEPT !.caller = "graph", !.prompt = GeneratePrompt(state)]
    /\ pc' = "dl_first"
    /\ log' = Append(log, NodeEvent("generate_response"))
    /\ UNCHANGED << stores, request, nreq, ret, state, steps, start, http, boot, life, parked >>

\* Mutant: the generation node lets the exception of process_query through
\* to the facade.
GenerateEnd_Propagates ==
    /\ pc = "generate_end"
    /\ IF ret.raised
       THEN /\ http' = Http500(ret.exc)
            /\ pc' = "idle"
            /\ state' = state
       ELSE /\ state' = [state EXCEPT !.response = ret.value.response]
            /\ pc' = "graph_return"
            /\ http' = http
    /\ UNCHANGED << stores, request, nreq, dl, ret, steps, log, start, boot, life, parked >>

\* Mutant: the returned tool calls replace the log.
MergeToolCalls_Replace(logged, returned) ==
    IF Truthy(returned) THEN returned.value ELSE logged

\* if result.get("tool_calls"): state["mcp_tool_calls"].extend(...)
MergeToolCalls(logged, returned) ==
    IF Truthy(returned) THEN logged \o returned.value ELSE logged

\* _generate_response_node after process_query returned or raised.
GenerateEnd ==
    /\ pc = "generate_end"
    /\ state' =
        IF ret.raised
        THEN [state EXCEPT !.error = <<"Response generation error", ret.exc>>]
        ELSE [state EXCEPT
                !.response = ret.value.response,
                !.mcp_tool_calls = MergeToolCalls(@, ret.value.tool_calls)]
    /\ pc' = "graph_return"
    /\ UNCHANGED << stores, request, nreq, dl, ret, steps, log, start, http, boot, life, parked >>

\* The envelope of the "langgraph" branch of POST /query.
GraphEnvelope(s) ==
    [response |-> s.response,
     tool_calls |-> PySome(s.mcp_tool_calls),
     method |-> "LangGraph + MCP"]

\* The workflow reached END: process_query returns and the facade answers.
GraphReturn ==
    /\ pc = "graph_return"
    /\ http' = Http200(GraphEnvelope(state))
    /\ pc' = "idle"
    /\ UNCHANGED << stores, request, nreq, dl, ret, state, steps, log, start, boot, life, parked >>

\* ------------------------------------------------- Tool-Calling Agent

\* AgentExecutor(max_iterations=3)
MaxIterations == 3

\* The tool calls the agent's model makes: a LangChain tool and the adapter
\* arguments its _arun builds from the tool input.
AgentChoices ==
    << [tool |-> "chromadb_search", adapter |-> "chromadb",
        args |-> [operation |-> "query", query |-> <<"m", "c", "p">>, n_results |-> 3]],
       [tool |-> "chromadb_add", adapter |-> "chromadb",
        args |-> [operation |-> "add", document |-> "new doc", metadata |-> EmptyDict]],
       [tool |-> "mongodb_query", adapter |-> "mongodb",
        args |-> [operation |-> "count", collection |-> "users", filter |-> EmptyDict]],
       [tool |-> "mongodb_modify", adapter |-> "mongodb",
        args |-> [operation |-> "insert", collection |-> "users", filter |-> EmptyDict,
                  data |-> [name |-> "Eve", role |-> "user"]]] >>

\* What a LangChain tool's _arun returns: JSON text, an exception of the
\* adapter being caught and turned into an error mapping.
ToolObservation(out) ==
    IF out.raised THEN JsonDumps(ErrorResult(out.exc)) ELSE JsonDumps(out.result)

\* The tool inputs the agent's model supplies to mongodb_query.
QueryOperations == << "find", "find_one", "count", "insert", "update", "delete", "drop" >>
QueryCollections == << "users", "products" >>
QueryFilters == << EmptyDict, [category |-> "furniture"] >>
QueryLimits == << 0, 1 >>
MongoQueryInputs ==
    [n \in 1..(Len(QueryOperations) * Len(QueryCollections)
                 * Len(QueryFilters) * Len(QueryLimits)) |->
        LET a == n - 1
            b == a \div Len(QueryOperations)
            c == b \div Len(QueryCollections)
            d == c \div Len(QueryFilters)
        IN  [operation |-> QueryOperations[(a % Len(QueryOperations)) + 1],
             collection |-> QueryCollections[(b % Len(QueryCollections)) + 1],
             filter |-> QueryFilters[(c % Len(QueryFilters)) + 1],
             limit |-> QueryLimits[(d % Len(QueryLimits)) + 1]]]

\* The adapter arguments MongoDBQueryTool._arun builds from a tool input.
MongoQueryArgs(input) ==
    IF input.limit > 0
    THEN [operation |-> input.operation, collection |-> input.collection,
          filter |-> input.filter, limit |-> input.limit]
    ELSE [operation |-> input.operation, collection |-> input.collection,
          filter |-> input.filter]

\* The calls of mongodb_query the agent's model makes.
MongoQueryChoices ==
    [n \in 1..Len(MongoQueryInputs) |->
        [tool |-> "mongodb_query", adapter |-> "mongodb",
         args |-> MongoQueryArgs(MongoQueryInputs[n])]]

\* One iteration of the agent executor: the model calls one of the tools in
\* choices.
AgentStepWith(choices) ==
    /\ pc = "agent"
    /\ Len(steps) < MaxIterations
    /\ \E k \in 1..Len(choices), fault \in 0..1 :
        LET c == choices[k]
            out == AdapterExecute(c.adapter, c.args, stores, fault)
        IN  /\ stores' = out.stores
            /\ log' = Append(log, ExecuteEvent(c.tool, c.adapter, c.args, NoneStr, fault))
            /\ steps' = Append(steps, [action |-> [tool |-> c.tool, tool_input |-> c.args],
                                       observation |-> ToolObservation(out)])
    /\ UNCHANGED << pc, request, nreq, dl, ret, state, start, http, boot, life, parked >>

AgentStep == AgentStepWith(AgentChoices)

\* The envelope of the default branch of POST /query.
AgentEnvelope(result) ==
    [response |-> result.response,
     tool_calls |-> IF "intermediate_steps" \in DOMAIN result
                    THEN PySome(result.intermediate_steps) ELSE PySome(<<>>),
     method |-> "LangChain + MCP"]

\* The executor returns its output: process_query returns it with the
\* intermediate steps and the facade answers.
AgentFinish ==
    /\ pc = "agent"
    /\ \E output \in Texts :
        http' = Http200(AgentEnvelope([response |-> output,
                                       intermediate_steps |-> steps]))
    /\ pc' = "idle"
    /\ UNCHANGED << stores, request, nreq, dl, ret, state, steps, log, start, boot, life, parked >>

\* The executor raises: process_query catches it and returns an apology.
AgentFail ==
    /\ pc = "agent"
    /\ http' = Http200(AgentEnvelope(
                  [response |-> <<"I encountered an error while processing your request",
                                  "completion failed">>,
                   error |-> "completion failed",
                   intermediate_steps |-> <<>>]))
    /\ log' = Append(log, RaiseEvent("agent_executor", "completion failed"))
    /\ pc' = "idle"
    /\ UNCHANGED << stores, request, nreq, dl, ret, state, steps, start, boot, life, parked >>

\* ------------------------------------------------------- specification

Next ==
    \/ Connect
    \/ RetryAfterSleep
    \/ SetUp
    \/ ReceiveQuery
    \/ ReceiveTool
    \/ FirstCompletion
    \/ DispatchOne
    \/ SecondCompletion
    \/ McpReturn
    \/ AnalyzeQuery
    \/ SearchKnowledge
    \/ QueryDatabase
    \/ GenerateResponse
    \/ GenerateEnd
    \/ GraphReturn
    \/ AgentStep
    \/ AgentFinish
    \/ AgentFail

Spec == Init /\ [][Next]_vars

\* The backend with callers of the Routing Workflow only: every query is
\* sent with processing_method "langgraph".
ReceiveWorkflowQuery == ReceiveQuery /\ request'.processing_method = "langgraph"

\* A step of a workflow run.  Every call a node awaits (the completion
\* endpoint, a store) returns or raises, and the event loop then resumes the
\* node.
WorkflowStep ==
    \/ AnalyzeQuery
    \/ SearchKnowledge
    \/ QueryDatabase
    \/ GenerateResponse
    \/ FirstCompletion
    \/ DispatchOne
    \/ SecondCompletion
    \/ GenerateEnd
    \/ GraphReturn

\* A step of startup.  A connection attempt succeeds or raises within the
\* client's timeout, and the sleep ends.
StartupStep ==
    \/ Connect
    \/ RetryAfterSleep
    \/ SetUp

WorkflowNext == StartupStep \/ ReceiveWorkflowQuery \/ WorkflowStep

WorkflowSpec ==
    Init /\ [][WorkflowNext]_vars /\ WF_vars(StartupStep) /\ WF_vars(WorkflowStep)

\* The process lifecycle: startup, callers of POST /tool, shutdown.
LifecycleNext == StartupStep \/ ReceiveTool \/ Shutdown

LifecycleSpec == Init /\ [][LifecycleNext]_vars

\* The backend with callers of the Tool-Calling Agent only, whose model
\* calls mongodb_query once per query.
ReceiveAgentQuery == ReceiveQuery /\ request'.processing_method = "langchain"
AgentQueryStep == AgentStepWith(MongoQueryChoices) /\ steps = <<>>

QueryToolNext ==
    StartupStep \/ ReceiveAgentQuery \/ AgentQueryStep \/ AgentFinish \/ AgentFail

QueryToolSpec == Init /\ [][QueryToolNext]_vars

\* ------------------------------------------------- concurrent queries

\* Two requests of POST /query in flight together: their processing methods
\* and their queries.
ConcurrentMethods == {"mcp", "langgraph", "langchain"}
ConcurrentQueries(m) == IF m = "langgraph" THEN {QWhatIsMcp, QListUsers} ELSE {QHello}

\* The locals of the task the event loop is running.
Running == TaskOf(pc, request, dl, ret, state, steps, log, http)

\* Where a request task yields to the event loop: before its handler has
\* started, between two nodes of the workflow, and at the agent's model
\* calls.  MCPClient.process_query and the adapters call the completion
\* endpoint and the stores through blocking clients and never yield.
Suspendable(t) ==
    \/ t.pc \in {"analyze_query", "search_knowledge", "query_database",
                 "generate_response", "graph_return", "agent"}
    \/ t.pc = "dl_first" /\ t.dl.caller = "facade" /\ t.log = <<>>

\* Mutant: the tool-call lists are attributes of the shared method objects,
\* so a resumed task finds what the task that ran last left in them.
Resume_SharedToolCalls(saved, running) ==
    [saved EXCEPT !.dl.tool_calls = running.dl.tool_calls,
                  !.state.mcp_tool_calls = running.state.mcp_tool_calls,
                  !.steps = running.steps]

\* What a task finds when the event loop resumes it: its own locals.
Resume(saved, running) == saved

\* The event loop leaves the running task, suspended or finished, and
\* resumes the other one.
Switch ==
    /\ boot = NoBoot
    /\ pc = "idle" \/ Suspendable(Running)
    /\ parked.pc # "idle"
    /\ Run(Resume(parked, Running))
    /\ parked' = Running
    /\ UNCHANGED << stores, nreq, start, boot, life >>

\* What the completion endpoint and the stores do while two requests are in
\* flight: no call fails, and an answer asks for at most one invocation of
\* a registered tool.
Calm(l) ==
    \A i \in 1..Len(l) :
        /\ l[i].ev # "raise"
        /\ l[i].ev = "execute" => l[i].fault = 0
        /\ l[i].ev = "answer" /\ Truthy(l[i].tool_calls) =>
                /\ Len(l[i].tool_calls.value) = 1
                /\ IsRegistered(l[i].tool_calls.value[1].function.name)
                /\ l[i].tool_calls.value[1].function.arguments # Malformed
                /\ l[i].tool_calls.value[1].id # "call_late"

\* Startup is over and two requests have arrived.
ConcurrentInit ==
    /\ stores = SeededStores
    /\ start = stores
    /\ boot = NoBoot
    /\ life = [NoLife EXCEPT !.open = AllConnections]
    /\ nreq = 2
    /\ \E m1 \in ConcurrentMethods, m2 \in ConcurrentMethods :
       \E q1 \in ConcurrentQueries(m1), q2 \in ConcurrentQueries(m2) :
        LET t == Arrived(m1, q1)
        IN  /\ pc = t.pc
            /\ request = t.request
            /\ dl = t.dl
            /\ ret = t.ret
            /\ state = t.state
            /\ steps = t.steps
            /\ log = t.log
            /\ http = t.http
            /\ parked = Arrived(m2, q2)

ConcurrentNext ==
    \/ Switch
    \/ FirstCompletion /\ Calm(log')
    \/ DispatchOne /\ Calm(log')
    \/ SecondCompletion /\ Calm(log')
    \/ McpReturn
    \/ AnalyzeQuery
    \/ SearchKnowledge /\ Calm(log')
    \/ QueryDatabase /\ Calm(log')
    \/ GenerateResponse
    \/ GenerateEnd
    \/ GraphReturn
    \/ AgentStep /\ Calm(log')
    \/ AgentFinish

ConcurrentSpec == ConcurrentInit /\ [][ConcurrentNext]_vars

\* ---------------------------------------------------- reading the history

\* Positions in the history of the events of one kind.
CompleteIdx == {i \in 1..Len(log) : log[i].ev = "complete"}
AnswerIdx == {i \in 1..Len(log) : log[i].ev = "answer"}
ExecuteIdx == {i \in 1..Len(log) : log[i].ev = "execute"}
LoopExecuteIdx == {i \in ExecuteIdx : log[i].by = "loop"}

NodeIdx == {i \in 1..Len(log) : log[i].ev = "node"}

\* The k-th smallest element of a finite set of numbers.
RECURSIVE Nth(_, _)
Nth(S, k) ==
    LET m == CHOOSE x \in S : \A y \in S : x <= y
    IN  IF k = 1 THEN m ELSE Nth(S \ {m}, k - 1)

\* The workflow nodes that have run for the request being served, in order.
NodeSeq == [k \in 1..Cardinality(NodeIdx) |-> log[Nth(NodeIdx, k)].name]

\* The completion request that carries no tool schema, if one was made.
SecondIdx == {i \in CompleteIdx : log[i].tools.none}
HasSecond == SecondIdx # {}
SecondMessages == log[CHOOSE i \in SecondIdx : TRUE].messages
ToolTurns == SelectSeq(SecondMessages, LAMBDA t : t.role = "tool")

\* The stores after the executions the history lists at the positions idx,
\* applied in order to the stores st.
RECURSIVE Replay(_, _)
Replay(st, idx) ==
    IF idx = {} THEN st
    ELSE LET i == CHOOSE x \in idx : \A y \in idx : x <= y
         IN  Replay(AdapterExecute(log[i].tool, log[i].args, st, log[i].fault).stores,
                    idx \ {i})

\* MCPClient.process_query has returned or raised, and its caller has not
\* yet resumed.
LoopEnded == pc \in {"mcp_return", "generate_end"}
LoopReturned == LoopEnded /\ ~ret.raised
Requested == dl.message.tool_calls.value

\* The closed operation sets the adapters declare in get_tool_config.
ChromaOperations == {"query", "add", "delete", "stats"}
MongoOperations == {"find", "find_one", "count", "insert", "update", "delete"}

\* The query contains no search-intent and no record-intent keyword.
NoKeyword(text) ==
    \A word \in SearchKeywords \cup DatabaseKeywords : ~Contains(Lower(text), word)

\* ------------------------------------------------------------------ claims

\* C1: dispatching a name that is not in the Registry through call_tool
\* (POST /tool) returns an error-shaped result and raises nothing; for a
\* registered name the adapter's result is returned unchanged.
C1_UnknownToolReturnsError ==
    (pc = "idle" /\ request.endpoint = "tool") =>
        IF ~(request.name \in Tools)
        THEN ~ret.raised /\ http.status = 200 /\ IsErrorShaped(http.body.result)
        ELSE LET out == AdapterExecute(request.name, request.args, start, log[1].fault)
             IN  ~out.raised => (http.status = 200 /\ http.body.result = out.result)

\* C2: every tool-result turn of the second completion request carries the
\* id of the invocation whose execution produced the result it holds.
C2_ToolTurnsCarryOwnId ==
    HasSecond =>
        \A k \in 1..Len(ToolTurns) :
            ToolTurns[k].tool_call_id = log[Nth(LoopExecuteIdx, k)].call_id

\* C3: a successful POST /query response has exactly the fields response,
\* tool_calls and method, and tool_calls is a list, never null.
C3_EnvelopeShape ==
    (pc = "idle" /\ request.endpoint = "query" /\ http.status = 200) =>
        /\ DOMAIN http.body = {"response", "tool_calls", "method"}
        /\ ~http.body.tool_calls.none

\* C4 as stated: a workflow run for a query without keywords takes the
\* direct branch and never executes an adapter.
C4_DirectNeverExecutes ==
    (request.processing_method = "langgraph" /\ NoKeyword(request.query)) =>
        /\ state.route \in {NoneStr, "direct"}
        /\ pc \notin {"search_knowledge", "query_database"}
        /\ ExecuteIdx = {}

\* C4 amended: a workflow run for a query without keywords takes the direct
\* branch and never runs the knowledge-search or record-query node; an
\* adapter executes during the run only inside the generation node's
\* Dispatch Loop, for an invocation the completion endpoint's first answer
\* requested for a registered tool.
C4_DirectExecutesOnlyRequested ==
    (request.processing_method = "langgraph" /\ NoKeyword(request.query)) =>
        /\ state.route \in {NoneStr, "direct"}
        /\ pc \notin {"search_knowledge", "query_database"}
        /\ \A i \in ExecuteIdx :
            /\ log[i].by = "loop"
            /\ \E j \in AnswerIdx :
                /\ j = Nth(AnswerIdx, 1)
                /\ j < i
                /\ ~log[j].tool_calls.none
                /\ \E c \in 1..Len(log[j].tool_calls.value) :
                    /\ log[j].tool_calls.value[c].id = log[i].call_id
                    /\ log[j].tool_calls.value[c].function.name = log[i].tool
                    /\ log[i].tool \in Tools

C4_Witness ==
    /\ request.processing_method = "langgraph"
    /\ NoKeyword(request.query)
    /\ pc = "idle"
    /\ http.status = 200
    /\ state.route = "direct"
    /\ ExecuteIdx # {}

\* C5: when the model requests k >= 1 invocations, each is dispatched exactly
\* once, k records are produced and k tool-result turns follow the
\* assistant turn of the second completion request.
C5_EveryInvocationDispatched ==
    HasSecond =>
        /\ \A c \in 1..Len(Requested) :
            Cardinality({i \in LoopExecuteIdx : log[i].call_id = Requested[c].id}) = 1
        /\ Cardinality(LoopExecuteIdx) = Len(Requested)
        /\ Len(dl.tool_calls) = Len(Requested)
        /\ Len(ToolTurns) = Len(Requested)

\* C6: when the first completion call returns no tool invocations, the loop
\* returns that call's text with no tool-call records, having made exactly
\* one completion call and no adapter execution.
C6_NoToolsShortCircuit ==
    (LoopEnded /\ AnswerIdx # {} /\ log[Nth(AnswerIdx, 1)].tool_calls.none) =>
        /\ ~ret.raised
        /\ ret.value.response = log[Nth(AnswerIdx, 1)].content
        /\ ret.value.tool_calls.none
        /\ Cardinality(CompleteIdx) = 1
        /\ LoopExecuteIdx = {}

C6_Witness ==
    /\ pc = "mcp_return"
    /\ ~ret.raised
    /\ dl.message.tool_calls.none
    /\ ret.value.response = <<"answer">>

\* C7: one run of the Dispatch Loop makes at most two completion calls; the
\* first carries the full tool schema list with tool-choice auto; the second
\* is made only if the first requested tools, after every dispatch of the
\* run has returned, carries no tool schema, and its text is the returned
\* response; an invocation in the second answer is never dispatched.
C7_TwoCompletionCalls ==
    /\ Cardinality(CompleteIdx) <= 2
    /\ CompleteIdx # {} =>
        LET first == log[Nth(CompleteIdx, 1)]
        IN  /\ first.tools = PySome(AvailableTools)
            /\ first.tool_choice = "auto"
    /\ Cardinality(CompleteIdx) = 2 =>
        LET i2 == Nth(CompleteIdx, 2)
        IN  /\ ~log[Nth(AnswerIdx, 1)].tool_calls.none
            /\ Nth(AnswerIdx, 1) < i2
            /\ log[i2].tools.none
            /\ log[i2].tool_choice = NoneStr
            /\ \A i \in LoopExecuteIdx : i < i2
            /\ dl.i > Len(Requested)
            /\ \A i \in LoopExecuteIdx :
                \E c \in 1..Len(Requested) : Requested[c].id = log[i].call_id
            /\ (LoopReturned /\ Cardinality(AnswerIdx) = 2) =>
                ret.value.response = log[Nth(AnswerIdx, 2)].content

C7_Witness ==
    /\ pc = "mcp_return"
    /\ ~ret.raised
    /\ Cardinality(CompleteIdx) = 2
    /\ Cardinality(LoopExecuteIdx) = 2
    /\ ~log[Nth(AnswerIdx, 2)].tool_calls.none
    /\ ret.value.response = <<"answer">>

\* C8: the loop returns tool calls = null only when the model requested no
\* tools; whenever it requested at least one invocation the returned tool
\* calls is the recorded list.
C8_NullOnlyWhenNoToolsRequested ==
    LoopReturned =>
        IF RequestsTools(dl.message)
        THEN ~ret.value.tool_calls.none /\ ret.value.tool_calls.value = dl.tool_calls
        ELSE ret.value.tool_calls.none

\* C9: for the direct method through POST /query, when a step of the
\* Dispatch Loop raises, the caller receives an HTTP 500 that holds none of
\* the tool-call records, and the stores are exactly as the executed tool
\* calls left them.
C9_FailureIs500WithoutRollback ==
    (pc = "idle" /\ request.endpoint = "query"
        /\ request.processing_method = "mcp" /\ ret.raised) =>
        /\ http.status = 500
        /\ DOMAIN http.body = {"detail"}
        /\ http.body.detail = ret.exc
        /\ stores = Replay(start, LoopExecuteIdx)

C9_Witness ==
    /\ pc = "idle"
    /\ request.endpoint = "query"
    /\ request.processing_method = "mcp"
    /\ ret.raised
    /\ http.status = 500
    /\ dl.tool_calls # <<>>
    /\ stores.kb # start.kb

\* C10: for both adapters, execute with a missing operation or one outside
\* the adapter's closed set returns a mapping with an "error" key, does not
\* raise, and leaves the store unchanged.
C10_BadOperationIsErrorResult ==
    (pc = "idle" /\ request.endpoint = "tool" /\ request.name \in Tools) =>
        LET operation == Get(request.args, "operation", NoneStr)
            closed == IF request.name = "chromadb" THEN ChromaOperations
                      ELSE MongoOperations
        IN  (operation \notin closed) =>
                /\ ~ret.raised
                /\ IsErrorShaped(ret.value)
                /\ stores = start

\* C11: for both adapters, a failure while executing against the external
\* store is returned by execute as an error-shaped result and is never
\* raised to the caller (here: the caller of POST /tool).
C11_StoreFailureIsErrorResult ==
    (pc = "idle" /\ request.endpoint = "tool" /\ request.name \in Tools
        /\ log[1].fault # 0) =>
        /\ ~ret.raised
        /\ http.status = 200

\* An exception occurred while the query was processed: the Dispatch Loop
\* raised to the facade, a workflow node caught one, or the agent executor
\* raised.
QueryFailed ==
    \/ request.processing_method = "mcp" /\ ret.raised
    \/ request.processing_method = "langgraph" /\ state.error # <<>>
    \/ \E i \in 1..Len(log) : log[i].ev = "raise"

\* C12: for each of the three methods, when an exception occurs during query
\* processing the caller receives an HTTP error or a non-empty apology text,
\* never a success envelope with an empty response.
C12_FailureIsVisible ==
    (pc = "idle" /\ request.endpoint = "query" /\ QueryFailed) =>
        \/ http.status = 500
        \/ http.status = 200 /\ http.body.response # <<>>

\* The shape of a workflow run so far: classification first, then the one
\* node the route chooses, generation after a knowledge search or a record
\* query, no node twice, and the run ends after generation or the error node.
WorkflowShape ==
    request.processing_method = "langgraph" =>
        /\ pc \notin {"idle", "analyze_query"} => NodeSeq # <<>>
        /\ NodeSeq # <<>> => NodeSeq[1] = "analyze_query"
        /\ Len(NodeSeq) >= 2 =>
            NodeSeq[2] = CASE state.route = "search" -> "search_knowledge"
                           [] state.route = "database" -> "query_database"
                           [] state.route = "direct" -> "generate_response"
                           [] OTHER -> "handle_error"
        /\ Len(NodeSeq) >= 3 =>
            /\ NodeSeq[2] \in {"search_knowledge", "query_database"}
            /\ NodeSeq[3] = "generate_response"
        /\ Len(NodeSeq) <= 3
        /\ \A a, b \in 1..Len(NodeSeq) : a # b => NodeSeq[a] # NodeSeq[b]
        /\ (pc = "idle" /\ http.status # 0) =>
            NodeSeq[Len(NodeSeq)] \in {"generate_response", "handle_error"}

\* C13: every run of the Routing Workflow starts in classification, then
\* executes exactly one of knowledge-search, record-query, generation and
\* error as the route chooses, knowledge-search and record-query are followed
\* by generation, no node executes twice, and the run always terminates.
C13_WorkflowRunsToEnd ==
    /\ []WorkflowShape
    /\ (pc = "analyze_query") ~> (pc = "idle" /\ http.status # 0)

C13_Witness ==
    /\ request.processing_method = "langgraph"
    /\ pc = "idle"
    /\ http.status = 200
    /\ NodeSeq = << "analyze_query", "query_database", "generate_response" >>

\* C14: classification is a function of the lowercased query only: a
\* search-intent keyword gives knowledge-search, otherwise a record-intent
\* keyword gives record-query, otherwise direct; a query matching both sets
\* is routed to knowledge-search.
C14_RouteIsKeywordFunction ==
    (request.processing_method = "langgraph" /\ state.route # NoneStr) =>
        LET q == Lower(request.query)
            searchIntent == \E w \in SearchKeywords : Contains(q, w)
            recordIntent == \E w \in DatabaseKeywords : Contains(q, w)
        IN  /\ state.route = IF searchIntent THEN "search"
                             ELSE IF recordIntent THEN "database" ELSE "direct"
            /\ request.query = QHello => state.route = "direct"
            /\ request.query = QWhatIsMcp => state.route = "search"
            /\ request.query = QListUsers => state.route = "database"
            /\ request.query = QCountOrders => state.route = "database"
            /\ request.query = QFindUser => state.route = "search"

C14_Witness ==
    /\ request.processing_method = "langgraph"
    /\ request.query = QFindUser
    /\ Contains(Lower(request.query), KwUser)
    /\ state.route = "search"
    /\ pc = "search_knowledge"

\* The adapter executions the record-query node made.
DatabaseNodeIdx == {i \in ExecuteIdx : log[i].by = "query_database"}

\* C15 as stated: for "How many products are there?" the workflow routes to
\* record-query and the node takes the neither-keyword branch: it counts the
\* users and the products collection and lists no product records.
C15_HowManyProductsCounts ==
    (request.processing_method = "langgraph" /\ request.query = QHowManyProducts
        /\ pc = "idle" /\ http.status # 0) =>
        /\ state.route = "database"
        /\ \E k \in 1..Len(NodeSeq) : NodeSeq[k] = "query_database"
        /\ DatabaseNodeIdx # {}
        /\ \A i \in DatabaseNodeIdx : log[i].args.operation = "count"
        /\ log[Nth(DatabaseNodeIdx, 1)].args.collection = "users"

\* C16: no node of the workflow lets an exception out of the workflow: an
\* exception in the knowledge-search, record-query or generation node is
\* stored in WorkflowState.error, the facade never answers with an error
\* status, and an error set by classification routes to the error node.
C16_NodesCatchExceptions ==
    request.processing_method = "langgraph" =>
        /\ http.status \in {0, 200}
        /\ (\E i \in DatabaseNodeIdx : log[i].fault # 0) =>
            /\ state.error # <<>>
            /\ state.error[1] \in {"Database query error", "Response generation error"}
        /\ (ret.raised /\ pc \in {"graph_return", "idle"}) =>
            state.error = <<"Response generation error", ret.exc>>
        /\ NodeOfRoute(RouteAfterAnalysis(
                [state EXCEPT !.error = <<"Analysis error", "exc">>,
                              !.route = "error"])) = "handle_error"

C16_Witness ==
    /\ request.processing_method = "langgraph"
    /\ pc = "idle"
    /\ http.status = 200
    /\ ret.raised
    /\ \E i \in DatabaseNodeIdx : log[i].fault # 0
    /\ state.error[1] = "Response generation error"

\* C17: when a workflow run terminates, a run with a non-empty error has
\* terminated through the error node with a non-empty apology as response,
\* and every other run has the generated text as response.
C17_TerminalResponsePopulated ==
    (request.processing_method = "langgraph" /\ pc = "idle" /\ http.status # 0) =>
        IF state.error # <<>>
        THEN /\ NodeSeq[Len(NodeSeq)] = "handle_error"
             /\ state.response # <<>>
        ELSE state.response = ret.value.response

\* C15 amended: for "How many products are there?" the workflow routes to
\* record-query and the node takes the "product" branch: its one adapter
\* call is a find on the products collection with limit 5, and the records
\* found are what it logs; it issues no count.
C15_HowManyProductsLists ==
    (request.processing_method = "langgraph" /\ request.query = QHowManyProducts
        /\ pc = "idle" /\ http.status # 0) =>
        /\ state.route = "database"
        /\ \E k \in 1..Len(NodeSeq) : NodeSeq[k] = "query_database"
        /\ Cardinality(DatabaseNodeIdx) = 1
        /\ \A i \in DatabaseNodeIdx :
            /\ log[i].args = [operation |-> "find", collection |-> "products", limit |-> 5]
            /\ log[i].fault = 0 =>
                /\ state.mcp_tool_calls # <<>>
                /\ DOMAIN state.mcp_tool_calls[1].result = {"results"}
                /\ Len(state.mcp_tool_calls[1].result.results)
                     = Min(5, Len(start.db.products))

C15_Witness ==
    /\ request.processing_method = "langgraph"
    /\ request.query = QHowManyProducts
    /\ pc = "idle"
    /\ http.status = 200
    /\ state.mcp_tool_calls # <<>>
    /\ "results" \in DOMAIN state.mcp_tool_calls[1].result
    /\ Len(state.mcp_tool_calls[1].result.results) = 3

AllFailed(outcomes) == \A k \in 1..Len(outcomes) : ~outcomes[k]

\* The connection loop of the running initialize: what it has done so far.
BootShape ==
    LET n == Len(boot.outcomes)
    IN  /\ n <= MaxRetries
        /\ \A k \in 1..Len(boot.sleeps) : boot.sleeps[k] = RetryDelay
        /\ pc = "connect" =>
            /\ n = boot.i /\ n < MaxRetries
            /\ Len(boot.sleeps) = n
            /\ AllFailed(boot.outcomes)
            /\ boot.client = "none"
        /\ pc = "sleep" =>
            /\ n = boot.i + 1 /\ n < MaxRetries
            /\ Len(boot.sleeps) = n - 1
            /\ AllFailed(boot.outcomes)
        /\ pc = "setup" =>
            /\ boot.client = "connected"
            /\ boot.outcomes[n]
            /\ AllFailed(SubSeq(boot.outcomes, 1, n - 1))
            /\ Len(boot.sleeps) = n - 1
        /\ pc = "startup_failed" <=> (n = MaxRetries /\ AllFailed(boot.outcomes))
        /\ pc = "startup_failed" =>
            /\ Len(boot.sleeps) = MaxRetries - 1
            /\ boot.client = "none"
        /\ pc \notin {"connect", "sleep", "setup", "startup_failed"} => boot = NoBoot

\* C18: connection establishment of each adapter terminates for every
\* sequence of connection outcomes: at most 5 attempts, a fixed delay between
\* consecutive attempts, no retry after the first success, the error
\* propagated if and only if all 5 attempts fail, no sleep after the last
\* failed attempt, and no initialization without a live connection.
C18_ConnectionRetryBounded ==
    /\ []BootShape
    /\ (pc = "connect") ~> (pc \in {"setup", "startup_failed"})

C18_Witness ==
    /\ pc = "setup"
    /\ Head(boot.queue) = "mongodb"
    /\ Len(boot.outcomes) = MaxRetries
    /\ Len(boot.sleeps) = MaxRetries - 1
    /\ boot.client = "connected"

\* C19 as stated: record adapter update on an existing collection returns
\* matched_count = modified_count = 0 when the filter matches no record,
\* matched_count = N and modified_count = 0 when it matches N records and the
\* patch changes no value (the empty patch included); modified_count <=
\* matched_count, and fields the patch does not name are left unchanged.
C19_UpdateCounts ==
    (pc = "idle" /\ request.endpoint = "tool" /\ request.name = "mongodb"
        /\ Get(request.args, "operation", NoneStr) = "update"
        /\ Get(request.args, "collection", NoneStr) \in DOMAIN start.db
        /\ log[1].fault = 0) =>
        LET c == request.args.collection
            coll == start.db[c]
            filter == Get(request.args, "filter", EmptyDict)
            data == Get(request.args, "data", EmptyDict)
            matched == {i \in 1..Len(coll) : Matches(coll[i], filter)}
            noop == \A i \in matched : \A k \in DOMAIN data :
                        k \in DOMAIN coll[i] /\ coll[i][k] = data[k]
        IN  /\ ~ret.raised
            /\ DOMAIN ret.value = {"matched_count", "modified_count"}
            /\ ret.value.matched_count = Cardinality(matched)
            /\ matched = {} => ret.value.modified_count = 0
            /\ noop => ret.value.modified_count = 0
            /\ ret.value.modified_count <= ret.value.matched_count
            /\ Len(stores.db[c]) = Len(coll)
            /\ \A i \in matched : \A k \in DOMAIN coll[i] \ DOMAIN data :
                    stores.db[c][i][k] = coll[i][k]

\* The identifiers of the documents in the search store.
KbIds(kb) == {kb[k].id : k \in 1..Len(kb)}

C19_UpdateCountsNonEmptyPatch ==
    (pc = "idle" /\ request.endpoint = "tool" /\ request.name = "mongodb"
        /\ Get(request.args, "operation", NoneStr) = "update"
        /\ Get(request.args, "collection", NoneStr) \in DOMAIN start.db
        /\ log[1].fault = 0) =>
        LET c == request.args.collection
            coll == start.db[c]
            filter == Get(request.args, "filter", EmptyDict)
            data == Get(request.args, "data", EmptyDict)
            matched == {i \in 1..Len(coll) : Matches(coll[i], filter)}
            noop == \A i \in matched : \A k \in DOMAIN data :
                        k \in DOMAIN coll[i] /\ coll[i][k] = data[k]
        IN  IF DOMAIN data = {}
            THEN /\ ~ret.raised
                 /\ IsErrorShaped(ret.value)
                 /\ stores = start
            ELSE /\ ~ret.raised
                 /\ DOMAIN ret.value = {"matched_count", "modified_count"}
                 /\ ret.value.matched_count = Cardinality(matched)
                 /\ matched = {} => ret.value.modified_count = 0
                 /\ noop => ret.value.modified_count = 0
                 /\ ret.value.modified_count <= ret.value.matched_count
                 /\ Len(stores.db[c]) = Len(coll)
                 /\ \A i \in 1..Len(coll) :
                        IF i \in matched
                        THEN \A k \in DOMAIN coll[i] \ DOMAIN data :
                                k \in DOMAIN stores.db[c][i]
                                /\ stores.db[c][i][k] = coll[i][k]
                        ELSE stores.db[c][i] = coll[i]

C19_Witness ==
    /\ pc = "idle"
    /\ request.endpoint = "tool"
    /\ request.name = "mongodb"
    /\ Get(request.args, "operation", NoneStr) = "update"
    /\ log[1].fault = 0
    /\ Get(request.args, "data", EmptyDict) = [role |-> "admin"]
    /\ ~ret.raised
    /\ ret.value = [matched_count |-> 1, modified_count |-> 0]

\* The adapter executions the knowledge-search node made, and the entries of
\* the tool-call log that a workflow node appended (those of the Dispatch
\* Loop have a name instead of a tool).
SearchNodeIdx == {i \in ExecuteIdx : log[i].by = "search_knowledge"}
NodeEntries == {k \in 1..Len(state.mcp_tool_calls) :
                    "tool" \in DOMAIN state.mcp_tool_calls[k]}
NodeRan(name) == \E k \in 1..Len(NodeSeq) : NodeSeq[k] = name
NoResultsSentence == <<"No relevant information found in knowledge base.">>

\* C23: whenever the knowledge-search node runs it executes the search
\* adapter's query once, with the unmodified query text and n_results = 3,
\* appends exactly one entry (invocation and result) to the tool-call log
\* whether the result holds documents, an empty match set or an error, and
\* sets context to the joined documents when there are some and to the
\* literal no-results sentence, never the empty text, otherwise.
C23_SearchNodeLogsOnce ==
    request.processing_method = "langgraph" =>
        /\ Cardinality(SearchNodeIdx) = IF NodeRan("search_knowledge") THEN 1 ELSE 0
        /\ NodeRan("search_knowledge") =>
            LET e == log[Nth(SearchNodeIdx, 1)]
                out == AdapterExecute("chromadb", e.args, start, e.fault)
                found == IF "documents" \in DOMAIN out.result
                         THEN out.result.documents ELSE <<>>
                onEmpty == AdapterExecute("chromadb", e.args,
                                          [start EXCEPT !.kb = <<>>], 0)
            IN  /\ e.args = [operation |-> "query", query |-> request.query,
                             n_results |-> 3]
                /\ ~out.raised
                /\ Cardinality(NodeEntries) = 1
                /\ state.mcp_tool_calls[1] =
                        [tool |-> "chromadb", operation |-> "search",
                         args |-> [query |-> request.query, n_results |-> 3],
                         result |-> out.result]
                /\ state.context # <<>>
                /\ found # <<>> =>
                        state.context = <<"Knowledge Base Results:", found>>
                /\ found = <<>> => state.context = NoResultsSentence
                /\ e.fault # 0 => IsErrorShaped(out.result) /\ found = <<>>
                /\ onEmpty.result.documents = <<>>
                /\ SearchContext(onEmpty.result.documents) = NoResultsSentence

C23_Witness ==
    /\ request.processing_method = "langgraph"
    /\ pc = "idle"
    /\ http.status = 200
    /\ NodeRan("search_knowledge")
    /\ log[Nth(SearchNodeIdx, 1)].fault = 1
    /\ IsErrorShaped(state.mcp_tool_calls[1].result)
    /\ state.context = NoResultsSentence
    /\ http.body.tool_calls.value # <<>>

\* The arguments of the adapter executions the record-query node made, in
\* order.
DatabaseNodeArgs ==
    [k \in 1..Cardinality(DatabaseNodeIdx) |-> log[Nth(DatabaseNodeIdx, k)].args]
ListArgs(coll) == [operation |-> "find", collection |-> coll, limit |-> 5]
CountArgs(coll) == [operation |-> "count", collection |-> coll]

\* C24: the record-query node decides from the lowercased query alone: with
\* "user" in it (also when "product" is in it as well) it lists users with
\* limit 5, otherwise with "product" in it it lists products with limit 5,
\* otherwise it counts users and products and reports both counts; it never
\* writes to the record store.
C24_RecordNodeBranches ==
    (request.processing_method = "langgraph" /\ NodeRan("query_database")) =>
        LET q == Lower(request.query)
            hasUser == Contains(q, <<"u", "s", "e", "r">>)
            hasProduct == Contains(q, <<"p", "r", "o", "d", "u", "c", "t">>)
            expected == IF hasUser THEN << ListArgs("users") >>
                        ELSE IF hasProduct THEN << ListArgs("products") >>
                        ELSE << CountArgs("users"), CountArgs("products") >>
            made == DatabaseNodeArgs
            faults == {log[i].fault : i \in DatabaseNodeIdx}
            listed(coll) == [i \in 1..Min(5, Len(start.db[coll])) |->
                                StrId(start.db[coll][i])]
        IN  /\ made # <<>>
            /\ Len(made) <= Len(expected)
            /\ made = SubSeq(expected, 1, Len(made))
            /\ \A i \in DatabaseNodeIdx :
                    AdapterExecute(log[i].tool, log[i].args, start, log[i].fault).stores
                        = start
            /\ faults = {0} =>
                /\ made = expected
                /\ Cardinality(NodeEntries) = 1
                /\ state.mcp_tool_calls[1].tool = "mongodb"
                /\ state.mcp_tool_calls[1].result =
                        IF hasUser THEN [results |-> listed("users")]
                        ELSE IF hasProduct THEN [results |-> listed("products")]
                        ELSE [users_count |-> Len(start.db.users),
                              products_count |-> Len(start.db.products)]
            /\ (pc = "generate_response") => stores = start

C24_Witness ==
    /\ request.processing_method = "langgraph"
    /\ request.query = QUserProducts
    /\ pc = "idle"
    /\ http.status = 200
    /\ DatabaseNodeArgs = << ListArgs("users") >>
    /\ Len(state.mcp_tool_calls[1].result.results) = 2

\* The tool calls the running Dispatch Loop executed, as the history lists
\* them, in order.
LoopExecuted ==
    [k \in 1..Cardinality(LoopExecuteIdx) |->
        [name |-> log[Nth(LoopExecuteIdx, k)].tool,
         args |-> log[Nth(LoopExecuteIdx, k)].args]]

\* C25: the generation node passes the raw query to the Dispatch Loop when
\* context is empty and the query wrapped with the context otherwise, and it
\* only appends to the tool-call log: what earlier nodes logged stays in
\* place and unchanged, followed by the tool calls of the Dispatch Loop in
\* their order (none when the loop raised).
C25_GenerationOnlyAppends ==
    [][ /\ pc = "generate_response" =>
            /\ dl'.prompt = IF state.context = <<>>
                            THEN [wrapped |-> FALSE, query |-> state.query,
                                  context |-> <<>>]
                            ELSE [wrapped |-> TRUE, query |-> state.query,
                                  context |-> state.context]
            /\ state' = state
        /\ (pc \in {"dl_first", "dl_dispatch"} /\ dl.caller = "graph") =>
            state' = state
        /\ pc = "generate_end" =>
            LET before == state.mcp_tool_calls
                after == state'.mcp_tool_calls
                added == SubSeq(after, Len(before) + 1, Len(after))
            IN  /\ Len(after) >= Len(before)
                /\ SubSeq(after, 1, Len(before)) = before
                /\ ret.raised => added = <<>>
                /\ ~ret.raised =>
                    /\ added = dl.tool_calls
                    /\ Len(added) = Len(LoopExecuted)
                    /\ \A k \in 1..Len(added) :
                        /\ added[k].name = LoopExecuted[k].name
                        /\ added[k].args = LoopExecuted[k].args
      ]_vars

C25_Witness ==
    /\ request.processing_method = "langgraph"
    /\ pc = "graph_return"
    /\ dl.prompt.wrapped
    /\ Len(state.mcp_tool_calls) = 3
    /\ "tool" \in DOMAIN state.mcp_tool_calls[1]
    /\ "name" \in DOMAIN state.mcp_tool_calls[2]
    /\ state.mcp_tool_calls[2].name # state.mcp_tool_calls[3].name

\* The position in the model's answer of the invocation with the given id.
PositionOf(call_id) == CHOOSE c \in 1..Len(Requested) : Requested[c].id = call_id

\* C26: within one run of the Dispatch Loop the invocations are dispatched
\* one after another in the order the model returned them, each on the
\* stores the one before it left, and the recorded tool-call list and the
\* tool-result turns are in that same order.
C26_DispatchInOrder ==
    (pc \in {"dl_dispatch", "mcp_return", "generate_end"} /\ RequestsTools(dl.message)) =>
        LET n == Cardinality(LoopExecuteIdx)
            at(k) == Nth(LoopExecuteIdx, k)
            returned(k) ==
                AdapterExecute(log[at(k)].tool, log[at(k)].args,
                               Replay(start, {j \in ExecuteIdx : j < at(k)}),
                               log[at(k)].fault)
        IN  /\ \A k \in 1..n :
                \E c \in 1..Len(Requested) : Requested[c].id = log[at(k)].call_id
            /\ \A k \in 1..(n - 1) :
                PositionOf(log[at(k)].call_id) < PositionOf(log[at(k + 1)].call_id)
            /\ \A k \in 1..n : PositionOf(log[at(k)].call_id) < Min(dl.i + 1, Len(Requested) + 1)
            /\ Len(dl.tool_calls) <= n
            /\ \A k \in 1..Len(dl.tool_calls) :
                /\ dl.tool_calls[k].name = log[at(k)].tool
                /\ dl.tool_calls[k].args = log[at(k)].args
                /\ ~returned(k).raised
                /\ dl.tool_calls[k].result = returned(k).result
            /\ HasSecond =>
                /\ Len(ToolTurns) = n
                /\ \A k \in 1..n :
                    /\ ToolTurns[k].name = log[at(k)].tool
                    /\ ToolTurns[k].content = JsonDumps(returned(k).result)

C26_Witness ==
    /\ pc = "mcp_return"
    /\ ~ret.raised
    /\ HasSecond
    /\ Len(ToolTurns) = 2
    /\ ToolTurns[1].name = "chromadb"
    /\ ToolTurns[2].name = "mongodb"
    /\ log[Nth(LoopExecuteIdx, 1)].call_id = "call_1"
    /\ log[Nth(LoopExecuteIdx, 2)].call_id = "call_2"

\* C27: within one run of the Dispatch Loop the turn sequence is append-only:
\* the sequence of the second completion request starts with the sequence of
\* the first (the system turn, then the user turn with the query), unchanged,
\* followed by exactly one assistant tool-call turn and then only
\* tool-result turns.
C27_TurnsAppendOnly ==
    /\ CompleteIdx # {} =>
        LET first == log[Nth(CompleteIdx, 1)].messages
        IN  /\ Len(first) = 2
            /\ first[1].role = "system"
            /\ first[2] = [role |-> "user", content |-> dl.prompt]
            /\ request.processing_method = "mcp" =>
                    first[2].content = [wrapped |-> FALSE, query |-> request.query,
                                        context |-> <<>>]
    /\ HasSecond =>
        LET first == log[Nth(CompleteIdx, 1)].messages
            second == SecondMessages
        IN  /\ Len(second) >= Len(first) + 1
            /\ SubSeq(second, 1, Len(first)) = first
            /\ second[Len(first) + 1].role = "assistant"
            /\ second[Len(first) + 1].tool_calls = Requested
            /\ \A k \in (Len(first) + 2)..Len(second) : second[k].role = "tool"
            /\ Len(second) = Len(first) + 1 + Len(dl.tool_calls)

C27_Witness ==
    /\ pc = "generate_end"
    /\ dl.prompt.wrapped
    /\ HasSecond
    /\ Len(SecondMessages) = 5
    /\ SecondMessages[2].content = dl.prompt
    /\ SecondMessages[5].role = "tool"

\* The positions of a request in the Dispatch Loop called by the facade, in
\* the Routing Workflow (its generation node's loop included) and in the
\* Tool-Calling Agent.
LoopPositions == {"dl_first", "dl_dispatch", "mcp_return"}
WorkflowPositions ==
    {"analyze_query", "search_knowledge", "query_database", "generate_response",
     "dl_first", "dl_dispatch", "generate_end", "graph_return"}
AgentPositions == {"agent"}

\* C28: for every value of the method selector of POST /query exactly one
\* method runs and the label of the response names it: "mcp" the Dispatch
\* Loop, "langgraph" the Routing Workflow, every other value (the default
\* and unknown ones) the Tool-Calling Agent.
C28_LabelNamesMethod ==
    request.endpoint = "query" =>
        LET m == request.processing_method
            answered == pc = "idle" /\ http.status = 200
        IN  /\ m = "mcp" =>
                /\ pc \in LoopPositions \cup {"idle"}
                /\ dl.caller = "facade"
                /\ NodeIdx = {} /\ state = NoState /\ steps = <<>>
                /\ answered => http.body.method = "MCP Direct"
            /\ m = "langgraph" =>
                /\ pc \in WorkflowPositions \cup {"idle"}
                /\ dl.caller \in {"", "graph"}
                /\ pc \in {"dl_first", "dl_dispatch"} => dl.caller = "graph"
                /\ pc # "analyze_query" => NodeIdx # {}
                /\ steps = <<>>
                /\ answered => http.body.method = "LangGraph + MCP"
            /\ m \notin {"mcp", "langgraph"} =>
                /\ pc \in AgentPositions \cup {"idle"}
                /\ dl = NoLoop /\ CompleteIdx = {}
                /\ NodeIdx = {} /\ state = NoState
                /\ answered => http.body.method = "LangChain + MCP"

C28_Witness ==
    /\ request.endpoint = "query"
    /\ request.processing_method = "other"
    /\ pc = "idle"
    /\ http.status = 200
    /\ http.body.method = "LangChain + MCP"
    /\ Len(steps) = 2

\* C29: an invocation of the agent's mongodb_query tool, whatever operation
\* and arguments the model supplies, leaves the contents of the record store
\* unchanged.
C29_QueryToolReadsOnly ==
    \A i \in ExecuteIdx :
        log[i].by = "mongodb_query" =>
            LET before == Replay(start, {j \in ExecuteIdx : j < i})
                out == AdapterExecute(log[i].tool, log[i].args, before, log[i].fault)
            IN  out.stores.db = before.db

\* C22: the connections to the stores are established once, at startup and
\* before any query is served, and every connection opened at startup is
\* released when the process has shut down, also when a close step or a
\* later startup step failed.
C22_ConnectionsReleased ==
    /\ life.open \subseteq AllConnections
    /\ (nreq > 0 \/ pc \notin {"connect", "sleep", "setup", "startup_failed"}) =>
            (pc # "stopped" => life.open = AllConnections)
    /\ pc \in {"stopped", "startup_failed"} => life.open = {}

\* How often initialize has written sample data to a collection.
SeedCount(c) == Cardinality({k \in 1..Len(life.seeds) : life.seeds[k] = c})

\* The adapters whose initialize has completed.
Initialized == SubSeq(BootOrder, 1, Len(BootOrder) - Len(boot.queue))

ExecutionsBy(l, by) == SelectSeq(l, LAMBDA e : e.ev = "execute" /\ e.by \in by)

\* The records of a tool-call list by who writes them: the Dispatch Loop,
\* a workflow node, the agent executor.
LoopRecords(list) == SelectSeq(list, LAMBDA r : "name" \in DOMAIN r)
NodeRecords(list) == SelectSeq(list, LAMBDA r : "tool" \in DOMAIN r)
StepRecords(list) == SelectSeq(list, LAMBDA r : "action" \in DOMAIN r)

\* The list an Optional[list] stands for.
ListOf(v) == IF Truthy(v) THEN v.value ELSE <<>>

\* The tool-call lists a request task holds, its response's included.
RecordLists(t) ==
    { t.dl.tool_calls,
      t.state.mcp_tool_calls,
      t.steps,
      ListOf(t.ret.value.tool_calls),
      IF t.http.status = 200 THEN ListOf(t.http.body.tool_calls) ELSE <<>> }

\* Every record of the list stands for an execution of the history l, in
\* the history's order.
OwnRecords(l, list) ==
    LET loops == ExecutionsBy(l, {"loop"})
        nodes == ExecutionsBy(l, {"search_knowledge", "query_database"})
        calls == ExecutionsBy(l, {AgentChoices[k].tool : k \in 1..Len(AgentChoices)})
    IN  /\ Len(LoopRecords(list)) + Len(NodeRecords(list)) + Len(StepRecords(list))
                = Len(list)
        /\ Len(LoopRecords(list)) <= Len(loops)
        /\ \A k \in 1..Len(LoopRecords(list)) :
                /\ LoopRecords(list)[k].name = loops[k].tool
                /\ LoopRecords(list)[k].args = loops[k].args
        /\ Len(NodeRecords(list)) <= Min(1, Len(nodes))
        /\ \A k \in 1..Len(NodeRecords(list)) :
                NodeRecords(list)[k].tool = nodes[k].tool
        /\ Len(StepRecords(list)) <= Len(calls)
        /\ \A k \in 1..Len(StepRecords(list)) :
                /\ StepRecords(list)[k].action.tool = calls[k].by
                /\ StepRecords(list)[k].action.tool_input = calls[k].args

\* C21: while two queries are in flight, processed by any two of the three
\* methods and interleaved wherever a task yields, every tool-call list of
\* a task (the Dispatch Loop's, the WorkflowState's, the agent's steps,
\* the one returned and the one in the response) holds only records of
\* adapter executions made for that task, in the order they were made.
C21_OwnInvocationsOnly ==
    \A t \in {Running, parked} :
        \A list \in RecordLists(t) : OwnRecords(t.log, list)

\* Two queries are in flight, each with tool calls recorded: the agent has
\* made two calls and waits for its model while the workflow, which has
\* run its record-query node and merged the Dispatch Loop's call, is
\* suspended before its return.
C21_Witness ==
    /\ pc = "agent"
    /\ Len(steps) = 2
    /\ parked.pc = "graph_return"
    /\ Len(NodeRecords(parked.state.mcp_tool_calls)) = 1
    /\ Len(LoopRecords(parked.state.mcp_tool_calls)) = 1
    /\ Len(ExecutionsBy(parked.log, {"loop"})) = 1
    /\ ExecutionsBy(log, {"loop", "search_knowledge", "query_database"}) = <<>>

====
